---- MODULE Spec2Model ----
(***************************************************************************)
(* Model of jni-sp-util: the process-wide handle caches and the resolvers  *)
(* that fill them (src/src/jni.rs), the opaque pointer manager             *)
(* (src/src/point.rs) and the invocation boundary generated by java_fn     *)
(* (src/macro/src/lib.rs).                                                 *)
(*                                                                         *)
(* Strings that the code transforms are sequences of one-character         *)
(* strings; strings that are only compared are plain strings.              *)
(***************************************************************************)
EXTENDS Integers, Sequences, FiniteSets, TLC

VARIABLES
    uses,    \* the resolver kinds the client code exercises in this run
    cache,   \* the five process-wide caches: kind -> key -> value
    cls,     \* the SpClass value the client currently holds
    last,    \* what the last resolver operation did
    proc,    \* "running", or how the process ended
    heap,    \* the boxed native objects: address -> cell
    shadow,  \* address -> the value last stored through that handle, and whether
             \* it was stored after the boxing
    pt,      \* what the last opaque-pointer operation did
    pc,      \* where the current boundary call is
    frame,   \* the current boundary call: return type, body runs, body outcome
    pending, \* the host's pending exception, if any
    ret,     \* the value the boundary call returned to the host, if it has
    events,  \* the host calls the boundary made in the current call, in order
    enc,     \* what the last use of the signature encoder was given and built
    held,    \* the resolver get_sp_struct! last returned to the client, if any
    thr,     \* the init each thread is running, and where it is in it
    promoted \* per class key, the calls of new_global_ref made by the threads

resolverVars == <<uses, cache, cls, last>>

pointVars == <<heap, shadow, pt>>

boundaryVars == <<pc, frame, pending, ret, events>>

threadVars == <<thr, promoted>>

vars ==
    <<uses, cache, cls, last, proc, heap, shadow, pt, pc, frame, pending, ret, events,
      enc, held, thr, promoted>>

\* What a resolver operation, a pointer operation and a boundary step leave
\* alone.
notResolver == <<pointVars, boundaryVars, enc, held, threadVars>>

notPoint == <<resolverVars, boundaryVars, enc, held, threadVars>>

notBoundary == <<resolverVars, pointVars, proc, enc, held, threadVars>>

----------------------------------------------------------------------------
(* Bounds and program constants *)

\* Keys are i32; the model uses MinKey..MaxKey.
MaxKey == 0

\* Boxes live at the addresses 1..MaxAddr and hold values 0..MaxVal.
MaxAddr == 2

MaxVal == 2

\* An integer-returning entry point returns 0..MaxRet.
MaxRet == 1

\* The encoder is given arrays nested up to MaxDepth deep and methods of up to
\* MaxArgs arguments.
MaxDepth == 2

MaxArgs == 2

\* The threads that run init concurrently are 1..MaxThreads.
MaxThreads == 2

\* The key SpClass::from_sig gives every class it builds.
FromSigKey == -1

MinKey == FromSigKey

Keys == MinKey..MaxKey

MemberKinds == {"field", "static_field", "method", "static_method"}

Kinds == {"class"} \cup MemberKinds

\* Option<T>: None is the empty tuple, Some(x) the one-element tuple.
None == <<>>

Some(x) == <<x>>

Unwrap(o) == o[1]

----------------------------------------------------------------------------
(* Strings as character sequences *)

RECURSIVE Concat(_)
Concat(ss) == IF ss = <<>> THEN <<>> ELSE Head(ss) \o Concat(Tail(ss))

\* str::replace(".", "/")
ReplaceDots(s) == [i \in DOMAIN s |-> IF s[i] = "." THEN "/" ELSE s[i]]

DefaultClassPath ==
    <<"j","a","v","a","/","l","a","n","g","/","O","b","j","e","c","t">>

----------------------------------------------------------------------------
(* SpType and the signature encoder *)

Primitives ==
    {"Byte", "Char", "Double", "Float", "Int", "Long", "Sort", "Boolean", "Void"}

\* An SpType is <<p>> with p a primitive's name, <<"Class", c>> with c an
\* SpClass value, or <<"Array", t>>.
IsPrimitive(t) == t[1] \in Primitives

\* SpClass::from_sig
SpClass_from_sig(sig) ==
    [cache |-> FromSigKey, class_full_path |-> Some(ReplaceDots(sig)), jni_class_ref |-> None]

\* SpClass::cache
SpClass_cache(key) ==
    [cache |-> key, class_full_path |-> None, jni_class_ref |-> None]

\* SpClass::new
SpClass_new(key, sig) ==
    [cache |-> key, class_full_path |-> Some(ReplaceDots(sig)), jni_class_ref |-> None]

\* SpType::new_class
new_class(class) == <<"Class", SpClass_from_sig(class)>>

PathOrDefault(c) ==
    IF c.class_full_path = None THEN DefaultClassPath ELSE Unwrap(c.class_full_path)

\* impl Display for SpType
RECURSIVE to_string(_)
to_string(t) ==
    CASE t[1] = "Byte" -> <<"B">>
      [] t[1] = "Char" -> <<"C">>
      [] t[1] = "Double" -> <<"D">>
      [] t[1] = "Float" -> <<"F">>
      [] t[1] = "Int" -> <<"I">>
      [] t[1] = "Long" -> <<"L">>
      [] t[1] = "Sort" -> <<"S">>
      [] t[1] = "Boolean" -> <<"Z">>
      [] t[1] = "Void" -> <<"V">>
      [] OTHER ->
           IF t[1] = "Class"
           THEN <<"L">> \o PathOrDefault(t[2]) \o <<";">>
           ELSE <<"[">> \o to_string(t[2])

\* SpType::get_str_len
RECURSIVE get_str_len(_)
get_str_len(t) ==
    IF IsPrimitive(t) THEN 1
    ELSE IF t[1] = "Class" THEN Len(PathOrDefault(t[2])) + 2
    ELSE get_str_len(t[2]) + 1

\* The signature SpMethod::new and SpStaticMethod::new build.
MethodSig(return_type, args) ==
    <<"(">> \o Concat([i \in DOMAIN args |-> to_string(args[i])]) \o <<")">>
        \o to_string(return_type)

\* The sum the loop "for n in args { all_len += n.get_str_len() }" adds.
RECURSIVE ArgsLen(_)
ArgsLen(args) == IF args = <<>> THEN 0 ELSE get_str_len(Head(args)) + ArgsLen(Tail(args))

\* Mutant of all_len: the two parentheses are not counted.
all_len_NoParens(return_type, args) == get_str_len(return_type) + ArgsLen(args)

\* The capacity SpMethod::new and SpStaticMethod::new give the signature's
\* buffer.
all_len(return_type, args) == get_str_len(return_type) + 2 + ArgsLen(args)

----------------------------------------------------------------------------
(* The host runtime, as far as the resolvers see it *)

\* The class paths the host can load.
HostClasses == {<<"a", "/", "B">>, <<"c", "/", "D">>}

\* JNIEnv::find_class: the class for a path, or None (a pending
\* NoClassDefFoundError, surfaced as Err by the jni crate).
find_class(path) == IF path \in HostClasses THEN Some([class |-> path]) ELSE None

\* JNIEnv::new_global_ref; a global reference is identified by the class it
\* refers to.
new_global_ref(class) == [global |-> class.class]

\* The members the owning class declares: two int fields, two static int
\* fields, two methods ()I and two static methods ()I, named "f" and "g".
HostDeclares(kind, name, sig) ==
    /\ name \in {"f", "g"}
    /\ sig = (IF kind \in {"field", "static_field"} THEN <<"I">> ELSE <<"(", ")", "I">>)

\* get_field_id / get_static_field_id / get_method_id / get_static_method_id
\* followed by into_raw: the raw id, or None when the host finds no member.
HostLookup(kind, name, sig) ==
    IF HostDeclares(kind, name, sig) THEN Some([id |-> kind, member |-> name]) ELSE None

\* What the unchecked host invocation can do with a raw id.  An id of another
\* kind reinterpreted by from_raw is undefined behaviour in the host: the call
\* may return anything, fail, or bring the process down.
HostInvokeOutcomes(kind, raw_id) ==
    IF raw_id.id = kind THEN {"Ok", "HostError"} ELSE {"Ok", "HostError", "Crash"}

----------------------------------------------------------------------------
(* mini_moka::sync::Cache, one per kind *)

\* A cache maps every key to None (no entry) or Some(value).
EmptyCache == [k \in Keys |-> None]

contains_key(c, key) == c[key] # None

CacheGet(c, key) == c[key]

CacheInsert(c, key, value) == [c EXCEPT ![key] = Some(value)]

CacheInvalidate(c, key) == [c EXCEPT ![key] = None]

----------------------------------------------------------------------------
(* Member resolvers: SpField, SpStaticField, SpMethod, SpStaticMethod *)

\* Sp*::cache(key)
SpMember_cache(key) == [cache |-> key, name |-> None, sig |-> None]

\* SpField::new, SpStaticField::new
SpField_new(key, name, return_type) ==
    [cache |-> key, name |-> Some(name), sig |-> Some(to_string(return_type))]

\* SpMethod::new, SpStaticMethod::new
SpMethod_new(key, name, return_type, args) ==
    [cache |-> key, name |-> Some(name), sig |-> Some(MethodSig(return_type, args))]

MemberNames == {"f", "missing"}

\* The resolvers the client builds for a kind.
Resolvers(kind) ==
    {SpMember_cache(k) : k \in Keys}
    \cup (IF kind \in {"field", "static_field"}
          THEN {SpField_new(k, n, <<"Int">>) : k \in Keys, n \in MemberNames}
          ELSE {SpMethod_new(k, n, <<"Int">>, <<>>) : k \in Keys, n \in MemberNames})

\* The cache a kind's init consults and fills.
InitCacheOf(kind) == kind

\* The cache a kind's call reads.  SpStaticField::call reads FIELD_CACHE.
CallCacheOf(kind) == IF kind = "static_field" THEN "field" ELSE kind

\* The record of an operation: its result, whether it found the key cached,
\* the host resolution calls it made, the raw id it invoked the host with, and
\* (before) the record of the init that directly preceded it on the same kind
\* and key, if any.
Op(op, kind, key, res, hit, lookups, invoked) ==
    [op |-> op, kind |-> kind, key |-> key, res |-> res, hit |-> hit,
     lookups |-> lookups, invoked |-> invoked, before |-> None]

\* What is kept of a finished init: its result and whether its key is in the
\* kind's cache now that it has returned.
Summary(o) ==
    [res |-> o.res, hit |-> o.hit, lookups |-> o.lookups,
     cached |-> contains_key(cache[o.kind], o.key)]

\* The init that directly precedes an operation on kind and key; building a
\* resolver value in between does not count as an operation.
PrevInit(kind, key) ==
    IF last.kind = kind /\ last.key = key
    THEN IF last.op = "init" THEN Some(Summary(last))
         ELSE IF last.op = "construct" THEN last.before
         ELSE None
    ELSE None

InitOp(kind, key, res, hit, lookups) ==
    [Op("init", kind, key, res, hit, lookups, None) EXCEPT !.before = PrevInit(kind, key)]

\* Mutant of InitFail: a failed init publishes a null handle under the key.
InitFail_Poison(kind, key, res, lookups) ==
    /\ cache' = [cache EXCEPT ![kind] = CacheInsert(@, key, [id |-> kind, member |-> "null"])]
    /\ last' = InitOp(kind, key, res, FALSE, lookups)

\* init returns an error: nothing is published.
InitFail(kind, key, res, lookups) ==
    /\ UNCHANGED cache
    /\ last' = InitOp(kind, key, res, FALSE, lookups)

\* Mutant of InitHit: init never finds the key cached.
InitHit_Never(kind, r) == FALSE

\* Mutant of InitHit: init consults the cache that call reads.
InitHit_CallCache(kind, r) == contains_key(cache[CallCacheOf(kind)], r.cache)

\* Mutant of InitHit: like SpClass::init, a member init also returns at once
\* on a resolver value that was initialised before.
InitHit_Memo(kind, r) ==
    \/ contains_key(cache[InitCacheOf(kind)], r.cache)
    \/ /\ held # None
       /\ held[1].kind = kind
       /\ held[1].r = r

\* Whether init finds the key cached and returns at once.
InitHit(kind, r) == contains_key(cache[InitCacheOf(kind)], r.cache)

\* Mutant of InitPublish: publishing under a key that is already present drops
\* the entry.
InitPublish_DropPresent(kind, r, raw_id) ==
    IF contains_key(cache[InitCacheOf(kind)], r.cache)
    THEN [cache EXCEPT ![InitCacheOf(kind)] = CacheInvalidate(@, r.cache)]
    ELSE [cache EXCEPT ![InitCacheOf(kind)] = CacheInsert(@, r.cache, raw_id)]

\* Mutant of InitPublish: init publishes into the cache that call reads.
InitPublish_CallCache(kind, r, raw_id) ==
    [cache EXCEPT ![CallCacheOf(kind)] = CacheInsert(@, r.cache, raw_id)]

\* The cache after init published raw_id.
InitPublish(kind, r, raw_id) ==
    [cache EXCEPT ![InitCacheOf(kind)] = CacheInsert(@, r.cache, raw_id)]

\* The body of Sp{Field,StaticField,Method,StaticMethod}::init
MemberInitBody(kind, r) ==
    IF InitHit(kind, r)
    THEN /\ UNCHANGED cache
         /\ last' = InitOp(kind, r.cache, "Ok", TRUE, 0)
    ELSE IF r.name = None \/ r.sig = None
    THEN InitFail(kind, r.cache, "NoDescriptor", 0)
    ELSE LET raw_id == HostLookup(kind, Unwrap(r.name), Unwrap(r.sig)) IN
         IF raw_id = None
         THEN InitFail(kind, r.cache, "ResolutionFailure", 1)
         ELSE /\ cache' = InitPublish(kind, r, Unwrap(raw_id))
              /\ last' = InitOp(kind, r.cache, "Ok", FALSE, 1)

\* The client calls Sp{Field,StaticField,Method,StaticMethod}::init
MemberInit(kind, r) ==
    /\ proc = "running"
    /\ UNCHANGED notResolver
    /\ kind \in uses
    /\ UNCHANGED <<uses, cls, proc>>
    /\ MemberInitBody(kind, r)

\* The raw id call finds for the resolver's key, or None.
CallLookup(kind, r) == CacheGet(cache[CallCacheOf(kind)], r.cache)

\* Sp{Field,StaticField,Method,StaticMethod}::call
MemberCall(kind, r) ==
    /\ proc = "running"
    /\ UNCHANGED notResolver
    /\ kind \in uses
    /\ UNCHANGED <<uses, cache, cls>>
    /\ LET id == CallLookup(kind, r) IN
       IF id = None
       THEN /\ last' = Op("call", kind, r.cache, "CacheMiss", FALSE, 0, None)
            /\ UNCHANGED proc
       ELSE \E out \in HostInvokeOutcomes(kind, Unwrap(id)) :
            /\ last' = Op("call", kind, r.cache, out, TRUE, 0, id)
            /\ proc' = IF out = "Crash" THEN "crashed" ELSE proc

\* The cache's capacity-driven eviction of one entry (the pressure comes from
\* keys outside the modelled range).
Evict(kind, key) ==
    /\ proc = "running"
    /\ UNCHANGED notResolver
    /\ kind \in uses
    /\ contains_key(cache[kind], key)
    /\ cache' = [cache EXCEPT ![kind] = CacheInvalidate(@, key)]
    /\ last' = Op("evict", kind, key, "Ok", TRUE, 0, None)
    /\ UNCHANGED <<uses, cls, proc>>

----------------------------------------------------------------------------
(* SpClass *)

\* The class names the client passes to from_sig and new.
ClassSigs == {<<"a", ".", "B">>, <<"a", "/", "B">>, <<"n", ".", "X">>}

\* The client builds a class resolver: from_sig(sig), cache(key) or new(key, sig).
ClassConstruct(c) ==
    /\ proc = "running"
    /\ UNCHANGED notResolver
    /\ "class" \in uses
    /\ cls' = Some(c)
    /\ last' = [Op("construct", "class", c.cache, "Ok", FALSE, 0, None)
                 EXCEPT !.before = PrevInit("class", c.cache)]
    /\ UNCHANGED <<uses, cache, proc>>

\* The body of SpClass::init on the value self; the client holds the value
\* afterwards, unless init failed on a value it had just built.
SpClassInitBody(self) ==
    IF self.jni_class_ref # None
    THEN /\ UNCHANGED <<cache, cls>>
         /\ last' = InitOp("class", self.cache, "Ok", TRUE, 0)
    ELSE IF self.cache < 0 /\ self.class_full_path = None
    THEN InitFail("class", self.cache, "NoClass", 0) /\ UNCHANGED cls
    ELSE LET cached == CacheGet(cache["class"], self.cache) IN
         IF cached # None
         THEN /\ cls' = Some([self EXCEPT !.jni_class_ref = cached])
              /\ UNCHANGED cache
              /\ last' = InitOp("class", self.cache, "Ok", TRUE, 0)
         ELSE IF self.class_full_path = None
         THEN InitFail("class", self.cache, "NoClassCache", 0) /\ UNCHANGED cls
         ELSE LET class == find_class(Unwrap(self.class_full_path)) IN
              IF class = None
              THEN InitFail("class", self.cache, "ResolutionFailure", 1)
                   /\ UNCHANGED cls
              ELSE LET raw == new_global_ref(Unwrap(class)) IN
                   /\ cache' = [cache EXCEPT !["class"] = CacheInsert(@, self.cache, raw)]
                   /\ cls' = Some([self EXCEPT !.jni_class_ref = Some(raw)])
                   /\ last' = InitOp("class", self.cache, "Ok", FALSE, 1)

\* SpClass::init, on the value the client holds
SpClass_init ==
    /\ proc = "running"
    /\ UNCHANGED notResolver
    /\ "class" \in uses
    /\ cls # None
    /\ UNCHANGED <<uses, proc>>
    /\ SpClassInitBody(Unwrap(cls))

----------------------------------------------------------------------------
(* get_sp_struct! and the client's use of what it returns *)

\* What get_sp_struct! returned: Ok(r) of the arm kind.
Held(kind, r) == Some([kind |-> kind, r |-> r])

\* What the macro leaves alone besides the resolver state and held.
notMacro == <<pointVars, boundaryVars, enc, threadVars>>

\* The resolver the member arms build on a miss; the client names an int
\* field or a method ()I.
MacroNew(kind, key, name) ==
    IF kind \in {"field", "static_field"}
    THEN SpField_new(key, name, <<"Int">>)
    ELSE SpMethod_new(key, name, <<"Int">>, <<>>)

\* Sp*::contains_cache
contains_cache(kind, key) == contains_key(cache[kind], key)

\* get_sp_struct!(field: / static_field: / method: / static_method: ...)
get_sp_struct_member(kind, key, name) ==
    /\ proc = "running"
    /\ kind \in uses
    /\ UNCHANGED <<uses, cls, proc, notMacro>>
    /\ IF contains_cache(kind, key)
       THEN /\ held' = Held(kind, SpMember_cache(key))
            /\ last' = Op("get_sp_struct", kind, key, "Ok", TRUE, 0, None)
            /\ UNCHANGED cache
       ELSE LET r == MacroNew(kind, key, name) IN
            /\ MemberInitBody(kind, r)
            /\ held' = IF last'.res = "Ok" THEN Held(kind, r) ELSE None

\* get_sp_struct!(class: env, key, sig)
get_sp_struct_class(key, sig) ==
    /\ proc = "running"
    /\ "class" \in uses
    /\ UNCHANGED <<uses, proc, notMacro>>
    /\ IF contains_cache("class", key)
       THEN /\ held' = Held("class", SpClass_cache(key))
            /\ cls' = Some(SpClass_cache(key))
            /\ last' = Op("get_sp_struct", "class", key, "Ok", TRUE, 0, None)
            /\ UNCHANGED cache
       ELSE /\ SpClassInitBody(SpClass_new(key, sig))
            /\ held' = IF last'.res = "Ok" THEN Held("class", Unwrap(cls')) ELSE None

\* The client calls call on the member resolver the macro returned.
HeldCall ==
    /\ held # None
    /\ Unwrap(held).kind \in MemberKinds
    /\ MemberCall(Unwrap(held).kind, Unwrap(held).r)

\* SpClass::get_jni_class, on the class the macro returned
get_jni_class ==
    /\ proc = "running"
    /\ held # None
    /\ Unwrap(held).kind = "class"
    /\ LET self == Unwrap(held).r IN
       last' = Op("get_jni_class", "class", self.cache,
                  IF self.jni_class_ref # None THEN "Ok" ELSE "ClassNotInit",
                  FALSE, 0, self.jni_class_ref)
    /\ UNCHANGED <<uses, cache, cls, proc, held, notMacro>>

----------------------------------------------------------------------------
(* The opaque pointer manager (point.rs) *)

\* A Point is a usize: 0 is the null pointer, Box::into_raw never returns it.
Addrs == 1..MaxAddr

Points == 0..MaxAddr

Values == 0..MaxVal

Unalloc == [st |-> "unalloc", val |-> 0]

Freed == [st |-> "freed", val |-> 0]

Live(v) == [st |-> "live", val |-> v]

\* The transforms the client hands to to_status_replace.
Transforms == {"inc", "reset", "panic"}

Panics(f) == f = "panic"

Apply(f, v) == IF f = "inc" THEN v + 1 ELSE 0

\* What the integer p points at.
Target(p) == IF p = 0 THEN "null" ELSE heap[p].st

PtOp(op, p, res, val, deref, called) ==
    [op |-> op, p |-> p, res |-> res, val |-> val, deref |-> deref, called |-> called,
     target |-> Target(p), f |-> "-",
     expect |-> IF p = 0 THEN None ELSE Some(shadow[p].val),
     written |-> IF p = 0 THEN FALSE ELSE shadow[p].written]

\* Mutant of is_null: the null check is missing.
is_null_Never(p) == FALSE

\* check_ptr: point.is_null()
is_null(p) == p = 0

\* Dereferencing a pointer to no live object is undefined behaviour: the
\* access may seem to succeed or bring the process down, and nothing is known
\* of the process afterwards.
Undefined(op, p) ==
    \E out \in {"Ok", "Crash"} :
        /\ pt' = PtOp(op, p, out, None, TRUE, FALSE)
        /\ proc' = IF out = "Crash" THEN "crashed" ELSE "undefined"
        /\ UNCHANGED <<heap, shadow>>

NullPointer(op, p) ==
    /\ pt' = PtOp(op, p, "NullPointer", None, FALSE, FALSE)
    /\ UNCHANGED <<heap, shadow, proc>>

\* to_ptr: Box::into_raw(Box::new(s)); the allocator hands out any address
\* that holds no live box, a freed one included.
to_ptr(s) ==
    /\ proc = "running"
    /\ UNCHANGED notPoint
    /\ \E a \in Addrs :
        /\ heap[a].st # "live"
        /\ heap' = [heap EXCEPT ![a] = Live(s)]
        /\ shadow' = [shadow EXCEPT ![a] = [val |-> s, written |-> FALSE]]
        /\ pt' = [PtOp("to_ptr", a, "Ok", None, FALSE, FALSE) EXCEPT !.target = "live",
                                                                   !.expect = Some(s),
                                                                   !.written = FALSE]
    /\ UNCHANGED proc

\* Mutant of StoreThrough: the reference is to a copy of the object.
StoreThrough_Copy(p, w) == heap

\* The heap after the client stored w through the reference to_status_use gave.
StoreThrough(p, w) == [heap EXCEPT ![p].val = w]

\* to_status_use, and the client's use of the reference: a read, then a write
\* of w unless w is None.
to_status_use(p, w) ==
    /\ proc = "running"
    /\ UNCHANGED notPoint
    /\ IF is_null(p) THEN NullPointer("to_status_use", p)
       ELSE IF Target(p) # "live" THEN Undefined("to_status_use", p)
       ELSE /\ pt' = PtOp("to_status_use", p, "Ok", Some(heap[p].val), TRUE, FALSE)
            /\ heap' = IF w = None THEN heap ELSE StoreThrough(p, Unwrap(w))
            /\ shadow' = IF w = None THEN shadow
                         ELSE [shadow EXCEPT ![p] = [val |-> Unwrap(w), written |-> TRUE]]
            /\ UNCHANGED proc

\* The heap after Box::from_raw(point) took the object: the box owns it and
\* frees it when the client drops it.
Reclaim(p) == [heap EXCEPT ![p] = Freed]

\* to_status
to_status(p) ==
    /\ proc = "running"
    /\ UNCHANGED notPoint
    /\ IF is_null(p) THEN NullPointer("to_status", p)
       ELSE IF Target(p) # "live" THEN Undefined("to_status", p)
       ELSE /\ pt' = PtOp("to_status", p, "Ok", Some(heap[p].val), TRUE, FALSE)
            /\ heap' = Reclaim(p)
            /\ UNCHANGED <<shadow, proc>>

\* Mutant of TransformPanicked: catch_unwind catches the transform's panic
\* and the call returns the "replace status error".
TransformPanicked_Caught(p, f) ==
    /\ pt' = [PtOp("to_status_replace", p, "ReplaceError", None, TRUE, TRUE) EXCEPT !.f = f]
    /\ UNCHANGED <<heap, shadow, proc>>

\* replace_with_or_abort with a transform that panics: the process aborts
\* inside the call, before catch_unwind can see the panic.
TransformPanicked(p, f) ==
    /\ pt' = [PtOp("to_status_replace", p, "NoReturn", None, TRUE, TRUE) EXCEPT !.f = f]
    /\ proc' = "aborted"
    /\ UNCHANGED <<heap, shadow>>

\* The heap after replace_with_or_abort stored the transform's result.
ReplaceStore(p, f) == [heap EXCEPT ![p].val = Apply(f, heap[p].val)]

\* to_status_replace
to_status_replace(p, f) ==
    /\ proc = "running"
    /\ UNCHANGED notPoint
    /\ IF is_null(p) THEN NullPointer("to_status_replace", p)
       ELSE IF Target(p) # "live" THEN Undefined("to_status_replace", p)
       ELSE IF Panics(f) THEN TransformPanicked(p, f)
       ELSE /\ Apply(f, heap[p].val) \in Values
            /\ pt' = [PtOp("to_status_replace", p, "Ok", None, TRUE, TRUE) EXCEPT !.f = f]
            /\ heap' = ReplaceStore(p, f)
            /\ shadow' = [shadow EXCEPT ![p] = [val |-> Apply(f, @.val), written |-> TRUE]]
            /\ UNCHANGED proc

NoPtOp ==
    [op |-> "none", p |-> 0, res |-> "Ok", val |-> None, deref |-> FALSE, called |-> FALSE,
     target |-> "null", f |-> "-", expect |-> None, written |-> FALSE]

PointInit ==
    /\ heap = [a \in Addrs |-> Unalloc]
    /\ shadow = [a \in Addrs |-> [val |-> 0, written |-> FALSE]]
    /\ pt = NoPtOp

----------------------------------------------------------------------------
(* The invocation boundary: the entry point java_fn generates around the   *)
(* user function that handle_result rewrote.  java_fn only compiles for a  *)
(* function declared to return Result<T>: T is the return type below.      *)

\* The declared success types: integers, boolean, and () for an entry point
\* that returns nothing.
RetTypes == {"jint", "jlong", "jboolean", "()"}

ValuesOf(ty) ==
    CASE ty \in {"jint", "jlong"} -> 0..MaxRet
      [] ty = "jboolean" -> BOOLEAN
      [] ty = "()" -> {"()"}

\* <T as Default>::default()
Default(ty) ==
    CASE ty \in {"jint", "jlong"} -> 0
      [] ty = "jboolean" -> FALSE
      [] ty = "()" -> "()"

ErrorTexts == {"no method cache", "point is null or not"}

PanicTexts == {"boom", ""}

UnknownPayload == "Unknown panic payload type"

\* The error an internal error may wrap (its source), if any.
ErrorCauses == {None, Some("JavaException")}

\* What the user body can do: return Ok(v), return Err(e) with or without a
\* cause, or panic with a &str, a String or some other payload.
Outcomes(ty) ==
    {[kind |-> "Return", val |-> Some(v), text |-> "-", payload |-> "-", cause |-> None] :
        v \in ValuesOf(ty)}
    \cup {[kind |-> "Err", val |-> None, text |-> e, payload |-> "-", cause |-> c] :
            e \in ErrorTexts, c \in ErrorCauses}
    \cup {[kind |-> "Panic", val |-> None, text |-> m, payload |-> t, cause |-> None] :
            m \in PanicTexts, t \in {"&str", "String"}}
    \cup {[kind |-> "Panic", val |-> None, text |-> "-", payload |-> "other", cause |-> None]}

NoOutcome == [kind |-> "-", val |-> None, text |-> "-", payload |-> "-", cause |-> None]

\* The exception the user body may leave pending in the host.
HostException == [class |-> "java/lang/RuntimeException", msg |-> "host"]

\* env.exception_check().unwrap_or_default()
exception_check == pending # None

\* env.throw_new("Ljava/lang/Exception;", msg)
throw_new(msg) == Some([class |-> "Ljava/lang/Exception;", msg |-> msg])

\* Mutant of ConvertEvents: the pending exception is described whether or not
\* there is one.
ConvertEvents_AlwaysDescribe(msg) ==
    <<"exception_check", "exception_describe", "throw_new">>

\* The host calls of an error or panic arm: exception_check, then
\* exception_describe (which clears the pending exception) if one is pending,
\* then throw_new.
ConvertEvents(msg) ==
    <<"exception_check">>
        \o (IF exception_check THEN <<"exception_describe">> ELSE <<>>)
        \o <<"throw_new">>

\* Mutant of PanicMessage: only the &str downcast is tried.
PanicMessage_StrOnly(o) == IF o.payload = "&str" THEN o.text ELSE UnknownPayload

\* java_fn: the message taken from the panic payload.
PanicMessage(o) ==
    IF o.payload = "&str" THEN o.text
    ELSE IF o.payload = "String" THEN o.text
    ELSE UnknownPayload

\* handle_result: format!("{:?}", err), as lines: the error's text, then its
\* cause under "Caused by:" if it has one.
ErrorMessage(o) ==
    <<o.text>> \o (IF o.cause = None THEN <<>> ELSE <<"Caused by:", Unwrap(o.cause)>>)

\* The host calls the entry point.
Enter(ty) ==
    /\ pc \in {"idle", "Exited"}
    /\ pc' = "Entered"
    /\ frame' = [ty |-> ty, runs |-> 0, outcome |-> NoOutcome]
    /\ pending' = None
    /\ ret' = None
    /\ events' = <<>>
    /\ UNCHANGED notBoundary

\* catch_unwind runs the closure, which calls the user function.
CallBody ==
    /\ pc = "Entered"
    /\ pc' = "UserBodyRunning"
    /\ frame' = [frame EXCEPT !.runs = @ + 1]
    /\ UNCHANGED <<pending, ret, events>>
    /\ UNCHANGED notBoundary

\* The user body finishes with outcome o, having left a host exception
\* pending or not.
BodyFinish(o, exc) ==
    /\ pc = "UserBodyRunning"
    /\ pc' = (CASE o.kind = "Return" -> "Returned"
                [] o.kind = "Err" -> "Errored"
                [] o.kind = "Panic" -> "Panicked")
    /\ frame' = [frame EXCEPT !.outcome = o]
    /\ pending' = exc
    /\ UNCHANGED <<ret, events>>
    /\ UNCHANGED notBoundary

\* handle_result, Ok(val) => val; java_fn, Ok(result) => result
ReturnValue ==
    /\ pc = "Returned"
    /\ pc' = "Exited"
    /\ ret' = frame.outcome.val
    /\ UNCHANGED <<frame, pending, events>>
    /\ UNCHANGED notBoundary

\* Mutant of ErrorLayer: on an error the body is tried again.
ErrorLayer_Retry ==
    /\ pc = "Errored"
    /\ pc' = IF frame.runs < 2 THEN "Entered" ELSE "Exited"
    /\ events' = events \o ConvertEvents(ErrorMessage(frame.outcome))
    /\ pending' = throw_new(ErrorMessage(frame.outcome))
    /\ ret' = Some(Default(frame.ty))
    /\ UNCHANGED frame
    /\ UNCHANGED notBoundary

\* handle_result, Err(err): the exception is raised and the default returned;
\* catch_unwind then sees a normal return.
ErrorLayer ==
    /\ pc = "Errored"
    /\ pc' = "Exited"
    /\ events' = events \o ConvertEvents(ErrorMessage(frame.outcome))
    /\ pending' = throw_new(ErrorMessage(frame.outcome))
    /\ ret' = Some(Default(frame.ty))
    /\ UNCHANGED frame
    /\ UNCHANGED notBoundary

\* java_fn, Err(err) of catch_unwind
PanicLayer ==
    /\ pc = "Panicked"
    /\ pc' = "Exited"
    /\ events' = events \o ConvertEvents(PanicMessage(frame.outcome))
    /\ pending' = throw_new(PanicMessage(frame.outcome))
    /\ ret' = Some(Default(frame.ty))
    /\ UNCHANGED frame
    /\ UNCHANGED notBoundary

BoundaryInit ==
    /\ pc = "idle"
    /\ frame = [ty |-> "jint", runs |-> 0, outcome |-> NoOutcome]
    /\ pending = None
    /\ ret = None
    /\ events = <<>>

----------------------------------------------------------------------------
(* The client's uses of the signature encoder *)

JavaLangString ==
    <<"j","a","v","a",".","l","a","n","g",".","S","t","r","i","n","g">>

\* The class names the client passes to SpType::new_class.
EncClassNames == {JavaLangString, <<"a", ".", "B">>}

\* How the client writes an SpType: a primitive <<p>>, SpType::new_class(name)
\* as <<"new_class", name>>, SpType::Class(SpClass::cache(key)) as
\* <<"Class", c>>, SpType::Array(Box::new(e)) as <<"Array", e>>.
BaseExprs ==
    {<<p>> : p \in Primitives}
    \cup {<<"new_class", n>> : n \in EncClassNames}
    \cup {<<"Class", SpClass_cache(MaxKey)>>}

RECURSIVE ExprsOfDepth(_)
ExprsOfDepth(d) ==
    IF d = 0 THEN BaseExprs
    ELSE LET S == ExprsOfDepth(d - 1) IN S \cup {<<"Array", e>> : e \in S}

TypeExprs == ExprsOfDepth(MaxDepth)

\* The SpType value an expression builds.
RECURSIVE SpType_of(_)
SpType_of(e) ==
    IF e[1] = "new_class" THEN new_class(e[2])
    ELSE IF e[1] = "Array" THEN <<"Array", SpType_of(e[2])>>
    ELSE e

\* The types the client uses as arguments and as return types of methods.
ArgExprs ==
    {<<"Int">>, <<"Long">>, <<"new_class", JavaLangString>>, <<"Array", <<"Int">>>>,
     <<"Class", SpClass_cache(MaxKey)>>}

RetExprs ==
    {<<"Boolean">>, <<"Void">>, <<"new_class", JavaLangString>>,
     <<"Array", <<"Array", <<"Int">>>>>>}

ArgLists == UNION {[1..n -> ArgExprs] : n \in 0..MaxArgs}

EncOp(op, kind, expr, args, name, out, cap) ==
    [op |-> op, kind |-> kind, expr |-> expr, args |-> args, name |-> name,
     out |-> out, cap |-> cap]

NoEnc == EncOp("none", "-", <<"Void">>, <<>>, "-", <<>>, 0)

\* t.to_string() and t.get_str_len() of the type e builds.  The encoder
\* reads nothing but its arguments, so a run uses it once.
Encode(e) ==
    /\ enc = NoEnc
    /\ enc' = EncOp("to_string", "-", e, <<>>, "-",
                    to_string(SpType_of(e)), get_str_len(SpType_of(e)))
    /\ UNCHANGED <<resolverVars, proc, pointVars, boundaryVars, held, threadVars>>

\* SpMethod::new / SpStaticMethod::new(key, name, return_type, args)
NewMethod(kind, key, name, rexpr, args) ==
    LET return_type == SpType_of(rexpr)
        arg_types == [i \in DOMAIN args |-> SpType_of(args[i])]
        m == SpMethod_new(key, name, return_type, arg_types)
    IN /\ enc = NoEnc
       /\ enc' = EncOp("new", kind, rexpr, args, name,
                       Unwrap(m.sig), all_len(return_type, arg_types))
       /\ UNCHANGED <<resolverVars, proc, pointVars, boundaryVars, held, threadVars>>

EncoderInit == enc = NoEnc

----------------------------------------------------------------------------
(* Threads running init concurrently *)

Threads == 1..MaxThreads

\* A thread's call of init: where it is (idle, check, resolve, insert, done),
\* the resolver it was called on, whether its check found the key cached, the
\* handle the host gave it, and its result.
ThreadState(pc_, kind, r, hit, raw, res) ==
    [pc |-> pc_, kind |-> kind, r |-> r, hit |-> hit, raw |-> raw, res |-> res]

\* A thread that has not called init.
Idle == ThreadState("idle", "none", None, FALSE, None, "-")

ThreadInit ==
    /\ thr = [t \in Threads |-> Idle]
    /\ promoted = [k \in Keys |-> 0]

\* The class descriptors the threads use: those of the sequential client and
\* a second class the host can load.
ThreadClassSigs == ClassSigs \cup {<<"c", "/", "D">>}

\* The class resolvers a thread builds.
ClassValues ==
    {SpClass_from_sig(sig) : sig \in ThreadClassSigs}
    \cup {SpClass_cache(key) : key \in Keys}
    \cup {SpClass_new(key, sig) : key \in Keys, sig \in ThreadClassSigs}

\* The resolvers a thread builds: those of the sequential client and, for a
\* member kind, the resolvers of the second member the host declares.
ThreadResolvers(kind) ==
    IF kind = "class" THEN ClassValues
    ELSE Resolvers(kind)
         \cup (IF kind \in {"field", "static_field"}
               THEN {SpField_new(k, "g", <<"Int">>) : k \in Keys}
               ELSE {SpMethod_new(k, "g", <<"Int">>, <<>>) : k \in Keys})

\* What a thread's step leaves alone besides cache, thr and promoted.
notThread == <<uses, cls, last, proc, pointVars, boundaryVars, enc, held>>

\* The thread's result: init returns res.
Return(t, res, hit) == [thr EXCEPT ![t].pc = "done", ![t].res = res, ![t].hit = hit]

\* A thread calls init on a resolver it built.  The threads of a run contend
\* for one key.
Thread_call(t, kind, r) ==
    /\ proc = "running"
    /\ kind \in uses
    /\ thr[t].pc = "idle"
    /\ \A u \in Threads : thr[u].pc # "idle" => Unwrap(thr[u].r).cache = r.cache
    /\ thr' = [thr EXCEPT ![t] = ThreadState("check", kind, Some(r), FALSE, None, "-")]
    /\ UNCHANGED <<cache, promoted, notThread>>

\* Mutant of CLASS_CACHE_get: the lookup never finds the key.
CLASS_CACHE_get_Miss(key) == None

\* CLASS_CACHE.get(&self.cache)
CLASS_CACHE_get(key) == CacheGet(cache["class"], key)

\* init up to and including its read of the cache: contains_key in the member
\* inits; in SpClass::init the tests of the value's own fields, then get.
Thread_check(t) ==
    /\ thr[t].pc = "check"
    /\ UNCHANGED <<cache, promoted, notThread>>
    /\ LET kind == thr[t].kind
           r == Unwrap(thr[t].r)
       IN IF kind # "class"
          THEN IF InitHit(kind, r)
               THEN thr' = Return(t, "Ok", TRUE)
               ELSE thr' = [thr EXCEPT ![t].pc = "resolve"]
          ELSE IF r.jni_class_ref # None
          THEN thr' = Return(t, "Ok", TRUE)
          ELSE IF r.cache < 0 /\ r.class_full_path = None
          THEN thr' = Return(t, "NoClass", FALSE)
          ELSE LET cached == CLASS_CACHE_get(r.cache) IN
               IF cached # None
               THEN thr' = [Return(t, "Ok", TRUE) EXCEPT
                               ![t].r = Some([r EXCEPT !.jni_class_ref = cached])]
               ELSE thr' = [thr EXCEPT ![t].pc = "resolve"]

\* init after a miss, up to the handle: the host lookup of a member; for a
\* class find_class and new_global_ref.
Thread_resolve(t) ==
    /\ thr[t].pc = "resolve"
    /\ UNCHANGED <<cache, notThread>>
    /\ LET kind == thr[t].kind
           r == Unwrap(thr[t].r)
       IN IF kind # "class"
          THEN /\ UNCHANGED promoted
               /\ IF r.name = None \/ r.sig = None
                  THEN thr' = Return(t, "NoDescriptor", FALSE)
                  ELSE LET raw_id == HostLookup(kind, Unwrap(r.name), Unwrap(r.sig)) IN
                       IF raw_id = None
                       THEN thr' = Return(t, "ResolutionFailure", FALSE)
                       ELSE thr' = [thr EXCEPT ![t].pc = "insert", ![t].raw = raw_id]
          ELSE IF r.class_full_path = None
          THEN thr' = Return(t, "NoClassCache", FALSE) /\ UNCHANGED promoted
          ELSE LET class == find_class(Unwrap(r.class_full_path)) IN
               IF class = None
               THEN thr' = Return(t, "ResolutionFailure", FALSE) /\ UNCHANGED promoted
               ELSE /\ thr' = [thr EXCEPT ![t].pc = "insert",
                                          ![t].raw = Some(new_global_ref(Unwrap(class)))]
                    /\ promoted' = [promoted EXCEPT ![r.cache] = @ + 1]

\* init's insert, and its return of Ok
Thread_insert(t) ==
    /\ thr[t].pc = "insert"
    /\ UNCHANGED <<promoted, notThread>>
    /\ LET kind == thr[t].kind
           r == Unwrap(thr[t].r)
           raw == Unwrap(thr[t].raw)
       IN IF kind # "class"
          THEN /\ cache' = InitPublish(kind, r, raw)
               /\ thr' = Return(t, "Ok", FALSE)
          ELSE /\ cache' = [cache EXCEPT !["class"] = CacheInsert(@, r.cache, raw)]
               /\ thr' = [Return(t, "Ok", FALSE) EXCEPT
                              ![t].r = Some([r EXCEPT !.jni_class_ref = Some(raw)])]

MacroInit == held = None

\* No encoder use, no macro use and no thread.
RestInit == EncoderInit /\ MacroInit /\ ThreadInit

----------------------------------------------------------------------------
(* Specifications of the resolvers *)

NoOp == Op("none", "none", 0, "Ok", FALSE, 0, None)

\* A run exercises two of the five resolver kinds: every operation names one
\* cache, so kinds can only interfere pairwise.
Scopes == {S \in SUBSET Kinds : Cardinality(S) = 2}

ResolverInit ==
    /\ uses \in Scopes
    /\ cache = [kind \in Kinds |-> EmptyCache]
    /\ cls = None
    /\ last = NoOp
    /\ proc = "running"
    /\ PointInit
    /\ BoundaryInit
    /\ RestInit

ClassNext ==
    \/ \E sig \in ClassSigs : ClassConstruct(SpClass_from_sig(sig))
    \/ \E key \in Keys : ClassConstruct(SpClass_cache(key))
    \/ \E key \in Keys, sig \in ClassSigs : ClassConstruct(SpClass_new(key, sig))
    \/ SpClass_init

InitNext == \E kind \in MemberKinds : \E r \in Resolvers(kind) : MemberInit(kind, r)

CallNext == \E kind \in MemberKinds : \E r \in Resolvers(kind) : MemberCall(kind, r)

EvictNext == \E kind \in Kinds, key \in Keys : Evict(kind, key)

ResolverNext == ClassNext \/ InitNext \/ CallNext \/ EvictNext

SpecResolver == ResolverInit /\ [][ResolverNext]_vars

\* The same client in a process whose caches never reach their capacity.
NoEvictNext == ClassNext \/ InitNext \/ CallNext

SpecResolverNoEvict == ResolverInit /\ [][NoEvictNext]_vars

ResolverTypeOK ==
    /\ uses \in Scopes
    /\ proc \in {"running", "crashed"}
    /\ \A kind \in Kinds : DOMAIN cache[kind] = Keys
    /\ last.op \in {"none", "construct", "init", "call", "evict"}

\* A client that takes its resolvers from get_sp_struct!, and also calls the
\* member inits itself.
MacroNext ==
    \/ \E kind \in MemberKinds, key \in Keys, name \in MemberNames :
          get_sp_struct_member(kind, key, name)
    \/ \E key \in Keys, sig \in ClassSigs : get_sp_struct_class(key, sig)
    \/ HeldCall
    \/ get_jni_class
    \/ InitNext
    \/ EvictNext

\* A run takes resolvers of one kind from the macro.
MacroSpecInit ==
    /\ uses \in {{kind} : kind \in Kinds}
    /\ cache = [kind \in Kinds |-> EmptyCache]
    /\ cls = None
    /\ last = NoOp
    /\ proc = "running"
    /\ PointInit
    /\ BoundaryInit
    /\ RestInit

SpecMacro == MacroSpecInit /\ [][MacroNext]_vars

----------------------------------------------------------------------------
(* Specification of the opaque pointer manager *)

\* A client that only boxes, uses, replaces and reclaims native objects.
PointSpecInit ==
    /\ uses = {}
    /\ cache = [kind \in Kinds |-> EmptyCache]
    /\ cls = None
    /\ last = NoOp
    /\ proc = "running"
    /\ PointInit
    /\ BoundaryInit
    /\ RestInit

PointNext ==
    \/ \E s \in Values : to_ptr(s)
    \/ \E p \in Points, w \in {None} \cup {Some(v) : v \in Values} : to_status_use(p, w)
    \/ \E p \in Points : to_status(p)
    \/ \E p \in Points, f \in Transforms : to_status_replace(p, f)

SpecPoint == PointSpecInit /\ [][PointNext]_vars

PointTypeOK ==
    /\ proc \in {"running", "crashed", "undefined", "aborted"}
    /\ \A a \in Addrs : heap[a].val \in Values /\ heap[a].st \in {"unalloc", "live", "freed"}

----------------------------------------------------------------------------
(* Specification of the invocation boundary *)

BoundarySpecInit ==
    /\ uses = {}
    /\ cache = [kind \in Kinds |-> EmptyCache]
    /\ cls = None
    /\ last = NoOp
    /\ proc = "running"
    /\ PointInit
    /\ BoundaryInit
    /\ RestInit

\* The steps of a call once the host has made it.
BoundaryStep ==
    \/ CallBody
    \/ \E o \in Outcomes(frame.ty), exc \in {None, Some(HostException)} : BodyFinish(o, exc)
    \/ ReturnValue
    \/ ErrorLayer
    \/ PanicLayer

BoundaryNext == (\E ty \in RetTypes : Enter(ty)) \/ BoundaryStep

\* The call is synchronous code: once entered it runs on, and the user body is
\* taken to finish.
SpecBoundary == BoundarySpecInit /\ [][BoundaryNext]_vars /\ WF_vars(BoundaryStep)

----------------------------------------------------------------------------
(* Specification of the signature encoder *)

EncoderSpecInit ==
    /\ uses = {}
    /\ cache = [kind \in Kinds |-> EmptyCache]
    /\ cls = None
    /\ last = NoOp
    /\ proc = "running"
    /\ PointInit
    /\ BoundaryInit
    /\ RestInit

EncoderNext ==
    \/ \E e \in TypeExprs : Encode(e)
    \/ \E kind \in {"method", "static_method"}, key \in Keys, name \in MemberNames,
          rexpr \in RetExprs, args \in ArgLists : NewMethod(kind, key, name, rexpr, args)

SpecEncoder == EncoderSpecInit /\ [][EncoderNext]_vars

----------------------------------------------------------------------------
(* Specification of concurrent inits *)

\* The threads of a run call init on resolvers of one kind.
ThreadSpecInit ==
    /\ uses \in {{kind} : kind \in Kinds}
    /\ cache = [kind \in Kinds |-> EmptyCache]
    /\ cls = None
    /\ last = NoOp
    /\ proc = "running"
    /\ PointInit
    /\ BoundaryInit
    /\ RestInit

ThreadNext ==
    \/ \E t \in Threads, kind \in Kinds : \E r \in ThreadResolvers(kind) : Thread_call(t, kind, r)
    \/ \E t \in Threads : Thread_check(t)
    \/ \E t \in Threads : Thread_resolve(t)
    \/ \E t \in Threads : Thread_insert(t)

SpecThreads == ThreadSpecInit /\ [][ThreadNext]_vars

----------------------------------------------------------------------------
(* Claims about the resolvers *)

\* C1: for each member kind and key, an init that directly follows a
\* successful, cache-missing init with the same key (nothing evicted in
\* between) succeeds as a cache hit and makes no host resolution call, so the
\* two inits together make exactly one.
C1_SecondInitIsCacheHit ==
    (/\ last.op = "init"
     /\ last.kind \in MemberKinds
     /\ last.before # None
     /\ Unwrap(last.before).res = "Ok"
     /\ ~Unwrap(last.before).hit)
    => (/\ last.res = "Ok"
        /\ last.hit
        /\ last.lookups = 0
        /\ Unwrap(last.before).lookups + last.lookups = 1)

\* C1 witness: a member init has just run right after a first, successful
\* init with the same key.
C1_Witness ==
    /\ last.op = "init"
    /\ last.kind \in MemberKinds
    /\ last.before # None
    /\ Unwrap(last.before).res = "Ok"
    /\ ~Unwrap(last.before).hit
    /\ Unwrap(last.before).lookups = 1

\* C2: in a process without eviction, a key is absent from the kind-K cache
\* exactly when no kind-K init for it has succeeded; call on such a key fails
\* with CacheMiss and invokes nothing on the host, whatever the other kinds'
\* inits did.
C2_CallBeforeInitMisses ==
    (/\ last.op = "call"
     /\ ~contains_key(cache[last.kind], last.key))
    => (last.res = "CacheMiss" /\ last.invoked = None)

\* C3: while a key is in the kind-K cache (its init succeeded and it was not
\* evicted), call on a kind-K resolver with that key does not fail with
\* CacheMiss and invokes the host with the raw id the kind-K init published.
C3_CallUsesOwnHandle ==
    (/\ last.op = "call"
     /\ contains_key(cache[last.kind], last.key))
    => (/\ last.res # "CacheMiss"
        /\ last.invoked = cache[last.kind][last.key])

\* The errors init returns on a cache miss: the host finds no class or member,
\* or the resolver was built from a key alone.
MissErrors == {"ResolutionFailure", "NoDescriptor", "NoClassCache"}

\* C10: for all five kinds, an init that returns an error leaves every cache
\* as it was; after a failed host lookup or a failed init of a key-only
\* resolver on an uncached key the key is still uncached; and an init for the
\* same key that then succeeds performs a host resolution.
C10_FailedInitPublishesNothing ==
    /\ [][(last'.op = "init" /\ last'.res # "Ok") => cache' = cache]_vars
    /\ []((last.op = "init" /\ last.res \in MissErrors)
            => ~contains_key(cache[last.kind], last.key))
    /\ []((/\ last.op = "init"
           /\ last.res = "Ok"
           /\ last.before # None
           /\ Unwrap(last.before).res # "Ok"
           /\ ~Unwrap(last.before).cached)
            => (last.lookups = 1 /\ ~last.hit))

\* C10 witness: an init failed at the host and the next init for the same
\* key, with a valid descriptor, has succeeded.
C10_Witness ==
    /\ last.op = "init"
    /\ last.res = "Ok"
    /\ last.before # None
    /\ Unwrap(last.before).res = "ResolutionFailure"
    /\ ~Unwrap(last.before).cached
    /\ last.lookups = 1

\* C13: a negative key is never cached: no cache ever holds an entry under a
\* negative key, a successful member init with a negative key is a miss that
\* resolves at the host, and a class resolver with a negative key that holds a
\* handle holds the host's handle for its own path.
C13_NegativeKeyAlwaysFresh ==
    /\ \A kind \in Kinds, key \in Keys : key < 0 => ~contains_key(cache[kind], key)
    /\ (last.op = "init" /\ last.kind \in MemberKinds /\ last.key < 0 /\ last.res = "Ok")
        => (~last.hit /\ last.lookups = 1)
    /\ (/\ cls # None
        /\ Unwrap(cls).cache < 0
        /\ Unwrap(cls).jni_class_ref # None
        /\ Unwrap(cls).class_full_path # None)
        => LET class == find_class(Unwrap(Unwrap(cls).class_full_path)) IN
           /\ class # None
           /\ Unwrap(cls).jni_class_ref = Some(new_global_ref(Unwrap(class)))

\* C21: an init or a call on a resolver of one kind leaves the other four
\* caches as they were, so contains_cache of another kind answers the same
\* before and after, for every key.
C21_OtherCachesUntouched ==
    [][last'.op \in {"init", "call"}
        => \A kind \in Kinds \ {last'.kind} :
              /\ cache'[kind] = cache[kind]
              /\ \A key \in Keys :
                    contains_key(cache'[kind], key) = contains_key(cache[kind], key)]_vars

\* C21 witness: an init has just published a handle under a key that another
\* kind's cache holds too.
C21_Witness ==
    /\ last.op = "init"
    /\ last.res = "Ok"
    /\ ~last.hit
    /\ contains_key(cache[last.kind], last.key)
    /\ \E kind \in Kinds \ {last.kind} : contains_key(cache[kind], last.key)

----------------------------------------------------------------------------
(* Claims about concurrent inits *)

Started == {t \in Threads : thr[t].pc # "idle"}

Finished == {t \in Threads : thr[t].pc = "done"}

\* What identifies a resolver's target: its key and its descriptor.
Descriptor(kind, r) ==
    IF kind = "class" THEN <<r.cache, r.class_full_path>> ELSE <<r.cache, r.name, r.sig>>

\* The handle the host returns for a resolver's descriptor, if it has one and
\* the host knows it.
HostHandle(kind, r) ==
    IF kind = "class"
    THEN IF r.class_full_path = None THEN None
         ELSE LET class == find_class(Unwrap(r.class_full_path)) IN
              IF class = None THEN None ELSE Some(new_global_ref(Unwrap(class)))
    ELSE IF r.name = None \/ r.sig = None THEN None
         ELSE HostLookup(kind, Unwrap(r.name), Unwrap(r.sig))

\* C14: when the threads' inits are all for the same key and the same
\* descriptor, one the host resolves, then under every interleaving each init
\* that has returned returned Ok, the key's entry is never anything but the
\* host's handle for the descriptor, it is there once an init has returned,
\* and no other key has an entry.
C14_ConcurrentInitsAgree ==
    (/\ Started # {}
     /\ \A t, u \in Started :
            /\ thr[t].kind = thr[u].kind
            /\ Descriptor(thr[t].kind, Unwrap(thr[t].r)) = Descriptor(thr[u].kind, Unwrap(thr[u].r))
     /\ \A t \in Started : HostHandle(thr[t].kind, Unwrap(thr[t].r)) # None)
    => LET t0 == CHOOSE t \in Started : TRUE
           kind == thr[t0].kind
           r == Unwrap(thr[t0].r)
       IN /\ \A t \in Finished : thr[t].res = "Ok"
          /\ \A key \in Keys :
                IF key # r.cache THEN cache[kind][key] = None
                ELSE IF Finished # {} THEN cache[kind][key] = HostHandle(kind, r)
                ELSE cache[kind][key] \in {None, HostHandle(kind, r)}

\* C14 witness: every thread has run init for one descriptor, each missed the
\* cache and resolved at the host, and the entry is the host's handle.
C14_Witness ==
    /\ Finished = Threads
    /\ \A t \in Threads :
            /\ thr[t].kind = "static_method"
            /\ thr[t].r = thr[1].r
            /\ ~thr[t].hit
            /\ thr[t].res = "Ok"
    /\ cache["static_method"][Unwrap(thr[1].r).cache]
           = HostHandle("static_method", Unwrap(thr[1].r))

\* The threads whose init holds a handle it promoted itself.
Promoters(key) ==
    {t \in Started : thr[t].kind = "class" /\ Unwrap(thr[t].r).cache = key /\ thr[t].raw # None}

C22_HandleStable ==
    [][\A kind \in Kinds, key \in Keys :
          (key >= 0 /\ contains_key(cache[kind], key))
              => cache'[kind][key] = cache[kind][key]]_vars

\* C22 amended: with nothing evicted, an init that reads the cache while the
\* key is cached returns without touching the cache, whatever its name or
\* signature; a cached key's entry is replaced only by the insert of an init
\* that read the cache before the key was published, and what that init
\* inserts is the host's handle for its own descriptor.
C22_StableAfterPublication ==
    /\ [][\A t \in Threads :
            (/\ thr[t].pc = "check"
             /\ contains_key(cache[thr[t].kind], Unwrap(thr[t].r).cache)
             /\ thr'[t] # thr[t])
            => (thr'[t].pc = "done" /\ cache' = cache)]_vars
    /\ [][\A kind \in Kinds, key \in Keys :
            (contains_key(cache[kind], key) /\ cache'[kind][key] # cache[kind][key])
            => \E t \in Threads :
                  /\ thr[t].pc = "insert"
                  /\ ~thr[t].hit
                  /\ thr[t].kind = kind
                  /\ Unwrap(thr[t].r).cache = key
                  /\ thr'[t].pc = "done"
                  /\ cache'[kind][key] = thr[t].raw]_vars
    /\ [](\A t \in Threads :
            thr[t].pc = "insert"
                => thr[t].raw = HostHandle(thr[t].kind, Unwrap(thr[t].r)))

\* C22 witness: one init resolved its descriptor and published the handle; an
\* init for the same key with another descriptor, one the host would resolve
\* to another handle, returned Ok from the cache; the entry is still the first
\* handle.
C22_Witness ==
    \E t, u \in Finished :
        /\ thr[t].kind = thr[u].kind
        /\ Unwrap(thr[t].r).cache = Unwrap(thr[u].r).cache
        /\ thr[t].res = "Ok" /\ ~thr[t].hit
        /\ thr[u].res = "Ok" /\ thr[u].hit
        /\ HostHandle(thr[u].kind, Unwrap(thr[u].r)) # None
        /\ HostHandle(thr[u].kind, Unwrap(thr[u].r)) # HostHandle(thr[t].kind, Unwrap(thr[t].r))
        /\ cache[thr[t].kind][Unwrap(thr[t].r).cache] = HostHandle(thr[t].kind, Unwrap(thr[t].r))

----------------------------------------------------------------------------
(* Claims about get_sp_struct! and eviction *)

\* C17: a call on a member resolver that get_sp_struct! returned never fails
\* with CacheMiss, whatever was evicted since the macro returned.  Stated for
\* the kinds whose call reads the cache their init fills; the static-field
\* call misses even without an eviction (C3).
C17_MacroCallNeverMisses ==
    (/\ last.op = "call"
     /\ held # None
     /\ CallCacheOf(last.kind) = InitCacheOf(last.kind))
    => last.res # "CacheMiss"

\* The errors of an init whose resolver has no descriptor.
NoDescriptorErrors == {"NoDescriptor", "NoClassCache", "NoClass"}

C19_MacroClassInitialised ==
    last.op = "get_jni_class"
        => (/\ last.res = "Ok"
            /\ contains_key(cache["class"], last.key)
                 => last.invoked = cache["class"][last.key])

----------------------------------------------------------------------------
(* Claims about the opaque pointer manager *)

Accesses == {"to_status_use", "to_status", "to_status_replace"}

\* C6: to_ptr(v) returns a non-null handle to a live box holding v;
\* to_status_use on a live handle yields the value last stored through the
\* handle and leaves the box live; to_status on a live handle returns the
\* value last stored through it (by to_ptr, a write through to_status_use, or
\* to_status_replace).
C6_RoundTrip ==
    /\ pt.op = "to_ptr"
        => (pt.p # 0 /\ heap[pt.p] = Live(Unwrap(pt.expect)))
    /\ (pt.op = "to_status_use" /\ pt.target = "live")
        => (pt.res = "Ok" /\ pt.val = pt.expect /\ heap[pt.p].st = "live")
    /\ (pt.op = "to_status" /\ pt.target = "live")
        => (pt.res = "Ok" /\ pt.val = pt.expect)

\* C6 witness: to_status has returned a value that was stored through the
\* handle after the boxing.
C6_Witness ==
    /\ pt.op = "to_status"
    /\ pt.target = "live"
    /\ pt.res = "Ok"
    /\ pt.written
    /\ pt.val = pt.expect

\* C7: an access through a handle whose object to_status has reclaimed fails
\* with the null-pointer error and does not touch the object again.
C7_AccessAfterTakeRejected ==
    (pt.op \in Accesses /\ pt.target = "freed")
        => (pt.res = "NullPointer" /\ ~pt.deref)

\* C8: to_status_replace(h, f) on a live handle holding v returns Ok and
\* leaves f(v) in the box when f returns; when f panics the process is aborted
\* inside the call, which never returns, and an aborted process takes no
\* further step.
C8_ReplaceOrAbort ==
    /\ []((pt.op = "to_status_replace" /\ pt.target = "live")
            => IF Panics(pt.f)
               THEN proc = "aborted" /\ pt.res = "NoReturn"
               ELSE /\ pt.res = "Ok"
                    /\ proc = "running"
                    /\ heap[pt.p] = Live(Apply(pt.f, Unwrap(pt.expect))))
    /\ [][proc # "aborted"]_vars

\* C8 witness: a transform has panicked on a live handle.
C8_Witness ==
    /\ pt.op = "to_status_replace"
    /\ pt.target = "live"
    /\ Panics(pt.f)
    /\ proc = "aborted"

\* C8, the other case reached: inc has turned a boxed 1 into 2.
C8_WitnessReturn ==
    /\ pt.op = "to_status_replace"
    /\ pt.f = "inc"
    /\ pt.expect = Some(1)
    /\ heap[pt.p] = Live(2)

\* C9: on the null handle the three accesses return the null-pointer error
\* without dereferencing, to_status_replace does not call the transform, and
\* the boxes are as they were.
C9_NullHandleRejected ==
    /\ []((pt.op \in Accesses /\ pt.p = 0)
            => (pt.res = "NullPointer" /\ ~pt.deref /\ ~pt.called /\ proc = "running"))
    /\ [][(pt'.op \in Accesses /\ pt'.p = 0) => heap' = heap]_vars

\* C9 witness: to_status_replace has been called on the null handle while a
\* box is live.
C9_Witness ==
    /\ pt.op = "to_status_replace"
    /\ pt.p = 0
    /\ pt.res = "NullPointer"
    /\ \E a \in Addrs : heap[a].st = "live"

----------------------------------------------------------------------------
(* Claims about the invocation boundary *)

BoundaryStates ==
    {"idle", "Entered", "UserBodyRunning", "Returned", "Errored", "Panicked", "Exited"}

\* C4: when the user body panicked, the call has returned the default of the
\* declared type with a host exception raised whose message is the payload's
\* text if the payload is a &str or a String and "Unknown panic payload type"
\* otherwise; the call is never anywhere but in the boundary's states, so the
\* panic does not reach the host.
C4_PanicBecomesException ==
    /\ pc \in BoundaryStates
    /\ (pc = "Exited" /\ frame.outcome.kind = "Panic")
        => (/\ pending = Some([class |-> "Ljava/lang/Exception;",
                               msg |-> IF frame.outcome.payload \in {"&str", "String"}
                                       THEN frame.outcome.text
                                       ELSE "Unknown panic payload type"])
            /\ ret = Some(Default(frame.ty)))

\* C4 witness: a boolean entry point whose body panicked with the String
\* "boom" has returned false with the exception "boom" raised.
C4_Witness ==
    /\ pc = "Exited"
    /\ frame.ty = "jboolean"
    /\ frame.outcome.kind = "Panic"
    /\ frame.outcome.payload = "String"
    /\ frame.outcome.text = "boom"
    /\ pending = Some([class |-> "Ljava/lang/Exception;", msg |-> "boom"])
    /\ ret = Some(FALSE)

\* C5: a call is only ever idle, Entered, UserBodyRunning, Returned, Errored,
\* Panicked or Exited, and moves Entered -> UserBodyRunning -> (Returned,
\* Errored or Panicked) -> Exited; at the exit the body has run exactly once
\* and a value of the declared type is returned; and every call entered
\* reaches the exit.
C5_SingleAttemptStateMachine ==
    /\ [](pc \in BoundaryStates /\ frame.runs <= 1)
    /\ [][/\ pc = "Entered" => pc' = "UserBodyRunning"
          /\ pc = "UserBodyRunning" => pc' \in {"Returned", "Errored", "Panicked"}
          /\ pc \in {"Returned", "Errored", "Panicked"} => pc' = "Exited"
          /\ pc \in {"idle", "Exited"} => pc' = "Entered"]_vars
    /\ [](pc = "Exited"
            => (frame.runs = 1 /\ ret # None /\ Unwrap(ret) \in ValuesOf(frame.ty)))
    /\ (pc = "Entered" ~> pc = "Exited")

\* C5 witness: a call whose body returned an error has reached the exit after
\* one run of the body.
C5_Witness ==
    /\ pc = "Exited"
    /\ frame.outcome.kind = "Err"
    /\ frame.runs = 1
    /\ ret = Some(Default(frame.ty))

\* The host calls among evs that raise an exception.
Raised(evs) == {i \in DOMAIN evs : evs[i] = "throw_new"}

\* C20: when the body returned an error, the error layer calls, in this
\* order, exception_check, exception_describe if and only if an exception is
\* pending, and throw_new with a message that starts with the error's text,
\* then returns the default of the success type and the call exits; so one
\* exception is raised for the call, and none when the body returned normally.
C20_ErrorLayerOrder ==
    /\ [][pc = "Errored"
            => (/\ events' = events \o (IF pending # None
                                        THEN <<"exception_check", "exception_describe",
                                               "throw_new">>
                                        ELSE <<"exception_check", "throw_new">>)
                /\ pending' # None
                /\ pending'[1].class = "Ljava/lang/Exception;"
                /\ Head(pending'[1].msg) = frame.outcome.text
                /\ ret' = Some(Default(frame.ty))
                /\ pc' = "Exited")]_vars
    /\ []((pc = "Exited" /\ frame.outcome.kind = "Err") => Cardinality(Raised(events)) = 1)
    /\ []((pc = "Exited" /\ frame.outcome.kind = "Return")
            => (Raised(events) = {} /\ ret = frame.outcome.val))

\* C20 witness: the body of a jlong entry point returned an error with a
\* cause while a host exception was pending; the exception was described, one
\* new exception raised and 0 returned.
C20_Witness ==
    /\ pc = "Exited"
    /\ frame.ty = "jlong"
    /\ frame.outcome.kind = "Err"
    /\ frame.outcome.cause # None
    /\ events = <<"exception_check", "exception_describe", "throw_new">>
    /\ pending = Some([class |-> "Ljava/lang/Exception;",
                       msg |-> <<frame.outcome.text, "Caused by:", "JavaException">>])
    /\ ret = Some(0)

----------------------------------------------------------------------------
(* Claims about the signature encoder *)

\* The encoding the grammar gives a type written with primitives, class names
\* and array nestings.
RECURSIVE Grammar(_)
Grammar(e) ==
    CASE e[1] = "Byte" -> <<"B">>
      [] e[1] = "Char" -> <<"C">>
      [] e[1] = "Double" -> <<"D">>
      [] e[1] = "Float" -> <<"F">>
      [] e[1] = "Int" -> <<"I">>
      [] e[1] = "Long" -> <<"J">>
      [] e[1] = "Sort" -> <<"S">>
      [] e[1] = "Boolean" -> <<"Z">>
      [] e[1] = "Void" -> <<"V">>
      [] e[1] = "new_class" ->
           <<"L">> \o [i \in DOMAIN e[2] |-> IF e[2][i] = "." THEN "/" ELSE e[2][i]] \o <<";">>
      [] e[1] = "Array" -> <<"[">> \o Grammar(e[2])

\* Whether a type is written with primitives, class names and arrays only.
RECURSIVE InGrammar(_)
InGrammar(e) ==
    IF e[1] = "Array" THEN InGrammar(e[2]) ELSE e[1] \in Primitives \cup {"new_class"}

\* C11: for every SpType written with primitives, class names and array
\* nestings, to_string gives the grammar's encoding: B, C, D, F, I, J (long),
\* S, Z, V, "L" + the name with '.' replaced by '/' + ";", and "[" + the
\* element's encoding.
C11_EncodingFollowsGrammar ==
    (enc.op = "to_string" /\ InGrammar(enc.expr)) => enc.out = Grammar(enc.expr)

\* The encodings of a method's arguments, one after the other.
RECURSIVE ArgsEncoding(_)
ArgsEncoding(args) ==
    IF args = <<>> THEN <<>>
    ELSE to_string(SpType_of(Head(args))) \o ArgsEncoding(Tail(args))

\* C12: whatever the name, SpMethod::new and SpStaticMethod::new build the
\* signature "(" + the arguments' encodings in order + ")" + the return
\* type's encoding, and the capacity computed beforehand is the length of the
\* signature built.
C12_SignatureAndCapacity ==
    enc.op = "new"
        => (/\ enc.out = <<"(">> \o ArgsEncoding(enc.args) \o <<")">>
                             \o to_string(SpType_of(enc.expr))
            /\ enc.cap = Len(enc.out))

\* C12 witness: a method named "missing" with arguments [Int,
\* Class("java.lang.String")] and return type Boolean got the signature
\* "(ILjava/lang/String;)Z", whose length is the capacity.
C12_Witness ==
    /\ enc.op = "new"
    /\ enc.name = "missing"
    /\ enc.args = <<(<<"Int">>), (<<"new_class", JavaLangString>>)>>
    /\ enc.expr = <<"Boolean">>
    /\ enc.out = <<"(", "I", "L", "j", "a", "v", "a", "/", "l", "a", "n", "g", "/",
                   "S", "t", "r", "i", "n", "g", ";", ")", "Z">>
    /\ enc.cap = Len(enc.out)

====
